---- MODULE Spec2Model ----
(***************************************************************************)
(* Aeroterra: stakeholder dashboards (components/dashboard.py) and map     *)
(* layers (components/maps.py, utils/map_utils.py).                        *)
(*                                                                         *)
(* Every request (render_dashboard, render_interactive_map) is one action. *)
(* Its arguments are drawn from bounded sets, its output is the sequence   *)
(* of elements handed to the rendering library, in emission order, plus a  *)
(* flag telling whether the call ended in an uncaught exception.  The wall *)
(* clock read by datetime.now() is the variable now (in hours).            *)
(***************************************************************************)
EXTENDS Integers, Sequences, FiniteSets

VARIABLES now, req, out

vars == <<now, req, out>>

(***************************************************************************)
(* Bounds of the model.                                                    *)
(***************************************************************************)
MaxTicks == 1
StartHour == 2300
MaxProbe == 100

(***************************************************************************)
(* Python values held by a bundle field.  "absent" marks a key that is not *)
(* in the dict; "nan" is float('nan'); "str" is a string (n = 0 is the     *)
(* literal 'N/A' of the code, n = 1 a caller-supplied string); "loc" is a  *)
(* {"lat": .., "lon": ..} dict.                                            *)
(***************************************************************************)
Num(n) == [tag |-> "num", n |-> n]
NaN == [tag |-> "nan", n |-> 0]
NoneV == [tag |-> "None", n |-> 0]
NA == [tag |-> "str", n |-> 0]
StrV == [tag |-> "str", n |-> 1]
LocV == [tag |-> "loc", n |-> 0]
AbsentV == [tag |-> "absent", n |-> 0]
NoV == [tag |-> "-", n |-> 0]

\* isinstance(x, (int, float))
IsNumber(x) == x.tag \in {"num", "nan"}

\* bool(x) of a field value
Truthy(x) ==
  CASE x.tag = "num" -> x.n # 0
    [] x.tag = "nan" -> TRUE
    [] x.tag = "str" -> TRUE
    [] x.tag = "loc" -> TRUE
    [] OTHER -> FALSE

\* x > k, x <= k, x < k, x >= k on numbers; every comparison with nan is False.
\* On None and str the comparison raises TypeError: callers test Raises first.
Raises(x) == ~IsNumber(x)
Gt(x, k) == x.tag = "num" /\ x.n > k
Le(x, k) == x.tag = "num" /\ x.n <= k
Lt(x, k) == x.tag = "num" /\ x.n < k
Ge(x, k) == x.tag = "num" /\ x.n >= k

(***************************************************************************)
(* Bundles: Optional[Dict].  A dict is a record over the keys the code     *)
(* reads, a missing key holding AbsentV; "other" stands for any further    *)
(* key of the dict.                                                        *)
(***************************************************************************)
WeatherKeys == {"temperature_2m", "apparent_temperature", "relative_humidity_2m",
                "wind_speed_10m", "location", "other"}
AirKeys == {"pm2_5", "pm10", "nitrogen_dioxide", "location", "other"}

NoBundle(keys) == [none |-> TRUE, d |-> [k \in keys |-> AbsentV]]
Dict(f) == [none |-> FALSE, d |-> f]

\* bool(bundle): None and {} are falsy
NonEmpty(b) == ~b.none /\ \E k \in DOMAIN b.d : b.d[k].tag # "absent"

\* bundle.get(key, default) and bundle.get(key)
Get(b, key, default) == IF b.d[key].tag = "absent" THEN default ELSE b.d[key]
Get1(b, key) == Get(b, key, NoneV)

(***************************************************************************)
(* Output elements and results.                                            *)
(***************************************************************************)
Item(kind, what, v, cat, color, data) ==
  [kind |-> kind, what |-> what, v |-> v, cat |-> cat, color |-> color, data |-> data]
Text(kind, what) == Item(kind, what, NoV, "", "", <<>>)
Shown(kind, what, v) == Item(kind, what, v, "", "", <<>>)
Advisory(kind, what, cat) == Item(kind, what, NoV, cat, "", <<>>)

Ok(items) == [items |-> items, raised |-> FALSE]
Raise(items) == [items |-> items, raised |-> TRUE]
\* sequential composition: what follows a raise is never executed
Then(r1, r2) ==
  IF r1.raised THEN r1 ELSE [items |-> r1.items \o r2.items, raised |-> r2.raised]

(***************************************************************************)
(* render_citizens_dashboard                                               *)
(***************************************************************************)
\* TempAdvisory with the hot threshold made inclusive (temp >= 35)
TempAdvisoryHotInclusive(temp) ==
  IF IsNumber(temp)
  THEN IF Ge(temp, 35) THEN <<Advisory("warning", "temperature", "VeryHot")>>
       ELSE IF Lt(temp, 15) THEN <<Advisory("info", "temperature", "Cool")>>
       ELSE <<Advisory("success", "temperature", "Pleasant")>>
  ELSE <<>>

\* dashboard.py 46-52
TempAdvisory(temp) ==
  IF IsNumber(temp)
  THEN IF Gt(temp, 35) THEN <<Advisory("warning", "temperature", "VeryHot")>>
       ELSE IF Lt(temp, 15) THEN <<Advisory("info", "temperature", "Cool")>>
       ELSE <<Advisory("success", "temperature", "Pleasant")>>
  ELSE <<>>

\* CitizenPM with the second threshold made exclusive (pm25 < 50)
CitizenPMModerateExclusive(pm25) ==
  IF IsNumber(pm25)
  THEN <<Shown("write", "pm2_5", pm25)>> \o
       (IF Le(pm25, 25) THEN <<Advisory("success", "pm2_5", "Good")>>
        ELSE IF Lt(pm25, 50) THEN <<Advisory("warning", "pm2_5", "Moderate")>>
        ELSE <<Advisory("error", "pm2_5", "Poor")>>)
  ELSE <<>>

\* dashboard.py 59-67
CitizenPM(pm25) ==
  IF IsNumber(pm25)
  THEN <<Shown("write", "pm2_5", pm25)>> \o
       (IF Le(pm25, 25) THEN <<Advisory("success", "pm2_5", "Good")>>
        ELSE IF Le(pm25, 50) THEN <<Advisory("warning", "pm2_5", "Moderate")>>
        ELSE <<Advisory("error", "pm2_5", "Poor")>>)
  ELSE <<>>

\* dashboard.py 74-79
HeatRecs(weather_data) ==
  IF NonEmpty(weather_data) /\ IsNumber(Get1(weather_data, "temperature_2m"))
     /\ Truthy(Get1(weather_data, "temperature_2m"))
     /\ Gt(Get1(weather_data, "temperature_2m"), 35)
  THEN <<Text("write", "rec_water"), Text("write", "rec_clothes"),
         Text("write", "rec_avoid_peak")>>
  ELSE <<>>

\* dashboard.py 81-86
AirRecs(air_quality_data) ==
  IF NonEmpty(air_quality_data) /\ IsNumber(Get1(air_quality_data, "pm2_5"))
     /\ Truthy(Get1(air_quality_data, "pm2_5"))
     /\ Gt(Get1(air_quality_data, "pm2_5"), 25)
  THEN <<Text("write", "rec_mask"), Text("write", "rec_windows"),
         Text("write", "rec_indoor")>>
  ELSE <<>>

\* render_citizens_dashboard that also writes the wind speed of the weather bundle
render_citizens_dashboard_with_wind(weather_data, air_quality_data) ==
  LET col1 == IF NonEmpty(weather_data)
              THEN LET temp == Get(weather_data, "temperature_2m", NA)
                       feels_like == Get(weather_data, "apparent_temperature", NA)
                       humidity == Get(weather_data, "relative_humidity_2m", NA)
                   IN <<Shown("write", "temperature_2m", temp),
                        Shown("write", "apparent_temperature", feels_like),
                        Shown("write", "relative_humidity_2m", humidity),
                        Shown("write", "wind_speed_10m",
                              Get(weather_data, "wind_speed_10m", NA))>>
                      \o TempAdvisory(temp)
              ELSE <<>>
      col2 == IF NonEmpty(air_quality_data)
              THEN CitizenPM(Get(air_quality_data, "pm2_5", NA))
              ELSE <<>>
      recommendations == HeatRecs(weather_data) \o AirRecs(air_quality_data)
  IN Ok(<<Text("info", "for_citizens"), Text("subheader", "todays_weather")>> \o col1
        \o <<Text("subheader", "air_quality_header")>> \o col2
        \o <<Text("subheader", "health_recommendations")>> \o recommendations
        \o (IF recommendations = <<>> THEN <<Text("write", "great_conditions")>> ELSE <<>>))

\* dashboard.py 26-92
render_citizens_dashboard(weather_data, air_quality_data) ==
  LET col1 == IF NonEmpty(weather_data)
              THEN LET temp == Get(weather_data, "temperature_2m", NA)
                       feels_like == Get(weather_data, "apparent_temperature", NA)
                       humidity == Get(weather_data, "relative_humidity_2m", NA)
                   IN <<Shown("write", "temperature_2m", temp),
                        Shown("write", "apparent_temperature", feels_like),
                        Shown("write", "relative_humidity_2m", humidity)>>
                      \o TempAdvisory(temp)
              ELSE <<>>
      col2 == IF NonEmpty(air_quality_data)
              THEN CitizenPM(Get(air_quality_data, "pm2_5", NA))
              ELSE <<>>
      recommendations == HeatRecs(weather_data) \o AirRecs(air_quality_data)
  IN Ok(<<Text("info", "for_citizens"), Text("subheader", "todays_weather")>> \o col1
        \o <<Text("subheader", "air_quality_header")>> \o col2
        \o <<Text("subheader", "health_recommendations")>> \o recommendations
        \o (IF recommendations = <<>> THEN <<Text("write", "great_conditions")>> ELSE <<>>))

(***************************************************************************)
(* render_bbmp_dashboard: literal content only.                            *)
(***************************************************************************)
\* dashboard.py 94-137
render_bbmp_dashboard(weather_data, air_quality_data, nasa_data) ==
  Ok(<<Text("info", "for_bbmp"), Text("subheader", "heat_island_monitoring"),
       Text("metric", "heat_island_intensity"), Text("metric", "critical_heat_zones"),
       Text("metric", "green_cover_impact"), Text("subheader", "development_pressure"),
       Item("dataframe", "pressure_data", NoV, "", "", <<85, 78, 92, 45, 67>>),
       Text("subheader", "planning_recommendations"),
       Text("write", "immediate_actions"), Text("write", "long_term_strategy")>>)

(***************************************************************************)
(* render_water_board_dashboard                                            *)
(***************************************************************************)
\* dashboard.py 149
HealthScores == <<45, 78, 82, 67, 59>>
\* dashboard.py 150
WaterQuality == <<"Critical", "Good", "Excellent", "Fair", "Poor">>

\* color_health_score with the amber threshold made exclusive (val > 50)
color_health_score_exclusive(val) ==
  IF val >= 70 THEN "#90EE90"
  ELSE IF val > 50 THEN "#FFD700"
  ELSE "#FFB6C1"

\* dashboard.py 158-164
color_health_score(val) ==
  IF val >= 70 THEN "#90EE90"
  ELSE IF val >= 50 THEN "#FFD700"
  ELSE "#FFB6C1"

\* datetime.weekday() of an hour stamp: 0 = Monday .. 6 = Sunday
Weekday(t) == (t \div 24) % 7

\* dashboard.py 173: pd.date_range(start=now - 90 days, end=now, freq='W'),
\* the Sundays from start to end at start's time of day
DateRange(t) ==
  LET start == t - 90 * 24
      first == start + ((6 - Weekday(start)) % 7) * 24
      n == IF first > t THEN 0 ELSE (t - first) \div (7 * 24) + 1
  IN [i \in 1..n |-> first + (i - 1) * 7 * 24]

\* dashboard.py 139-189
render_water_board_dashboard(weather_data, nasa_data, t) ==
  LET dates == DateRange(t)
      bellandur_trend == [i \in 1..Len(dates) |-> 45 + ((i - 1) % 5) - 2]
      ulsoor_trend == [i \in 1..Len(dates) |-> 78 + ((i - 1) % 3) - 1]
  IN Ok(<<Text("info", "for_bwssb"), Text("subheader", "lake_health_status")>>
        \o [i \in 1..Len(HealthScores) |->
              Item("cell", "health_score", Num(HealthScores[i]), WaterQuality[i],
                   color_health_score(HealthScores[i]), <<>>)]
        \o <<Text("subheader", "water_quality_trends"),
             Item("chart", "trend_dates", NoV, "", "", dates),
             Item("chart", "bellandur_trend", NoV, "", "red", bellandur_trend),
             Item("chart", "ulsoor_trend", NoV, "", "blue", ulsoor_trend),
             Text("subheader", "priority_action_items"),
             Text("error", "bellandur_critical"), Text("warning", "madivala_monitor"),
             Text("success", "sankey_success")>>)

(***************************************************************************)
(* render_electricity_dashboard                                            *)
(***************************************************************************)
\* dashboard.py 224-226
base_demand ==
  <<1800, 1650, 1500, 1400, 1350, 1400, 1600, 1900, 2200, 2400,
    2600, 2750, 2850, 2900, 2850, 2700, 2500, 2300, 2100, 2000,
    1950, 1900, 1850, 1800>>

Min(a, b) == IF a <= b THEN a ELSE b
Range(seq) == {seq[i] : i \in 1..Len(seq)}

\* CoolingColumn that estimates the cooling demand from 25 degrees on (temp > 25)
CoolingColumnFrom25(weather_data) ==
  IF NonEmpty(weather_data)
  THEN LET temp == Get(weather_data, "temperature_2m", Num(25))
           shown == <<Shown("metric", "current_temperature", temp)>>
       IN IF Raises(temp) THEN Raise(shown)
          ELSE IF Gt(temp, 25)
               THEN Ok(shown \o <<Shown("metric", "cooling_demand",
                                        Num(Min(100, (temp.n - 25) * 20)))>>)
               ELSE Ok(shown \o <<Item("metric", "cooling_demand", NoV, "Low", "", <<>>)>>)
  ELSE Ok(<<>>)

\* dashboard.py 199-209
CoolingColumn(weather_data) ==
  IF NonEmpty(weather_data)
  THEN LET temp == Get(weather_data, "temperature_2m", Num(25))
           shown == <<Shown("metric", "current_temperature", temp)>>
       IN IF Raises(temp) THEN Raise(shown)
          ELSE IF Gt(temp, 30)
               THEN Ok(shown \o <<Shown("metric", "cooling_demand",
                                        Num(Min(100, (temp.n - 25) * 20)))>>)
               ELSE Ok(shown \o <<Item("metric", "cooling_demand", NoV, "Low", "", <<>>)>>)
  ELSE Ok(<<>>)

\* dashboard.py 229-234: d * temp_factor with temp_factor = max(1.0, 1.0 + (temp - 25) * 0.02),
\* computed exactly (every base demand is a multiple of 50)
adjusted_demand(weather_data) ==
  IF NonEmpty(weather_data) /\ IsNumber(Get1(weather_data, "temperature_2m"))
  THEN LET temp == Get1(weather_data, "temperature_2m")
       IN IF Truthy(temp) /\ Gt(temp, 25)
          THEN [i \in 1..Len(base_demand) |-> (base_demand[i] \div 50) * (50 + (temp.n - 25))]
          ELSE base_demand
  ELSE base_demand

\* dashboard.py 191-252
render_electricity_dashboard(weather_data) ==
  Then(Ok(<<Text("info", "for_bescom")>>),
  Then(CoolingColumn(weather_data),
       Ok(<<Text("metric", "predicted_peak_load"), Text("metric", "grid_stress_level"),
            Text("subheader", "demand_forecast"),
            Item("chart", "demand_forecast", NoV, "", "", adjusted_demand(weather_data)),
            Text("subheader", "grid_recommendations"), Text("write", "immediate_actions")>>)))

(***************************************************************************)
(* render_parks_dashboard and render_research_dashboard: literal content.  *)
(***************************************************************************)
\* dashboard.py 254-312
render_parks_dashboard(weather_data, nasa_data) ==
  Ok(<<Text("info", "for_parks"), Text("metric", "city_green_cover"),
       Text("metric", "tree_canopy"), Text("metric", "park_visitor_count"),
       Text("metric", "tree_health_index"), Text("subheader", "park_performance"),
       Item("dataframe", "parks_data", NoV, "", "", <<85, 82, 78, 71, 69>>),
       Text("subheader", "tree_plantation_progress"),
       Item("chart", "planted", NoV, "", "green", <<2840, 3150, 2960, 3500>>),
       Item("chart", "targets", NoV, "", "lightgreen", <<3000, 3200, 3100, 3500>>),
       Item("chart", "species", NoV, "", "", <<890, 1240, 780, 650, 420, 980>>)>>)

\* render_research_dashboard that also reports the PM2.5 reading of the bundle
render_research_dashboard_with_pm(weather_data, air_quality_data, nasa_data) ==
  Ok(<<Text("info", "for_researchers"), Text("subheader", "data_quality"),
       Text("metric", "weather_data_quality"), Text("metric", "satellite_coverage"),
       Text("metric", "air_quality_sensors")>>
     \o (IF NonEmpty(air_quality_data)
         THEN <<Shown("metric", "pm2_5", Get(air_quality_data, "pm2_5", NA))>>
         ELSE <<>>)
     \o <<Text("subheader", "key_findings"),
          Text("write", "climate_patterns"), Text("write", "correlations"),
          Text("subheader", "advanced_analytics"), Text("dataframe", "correlation_matrix"),
          Text("subheader", "research_recommendations"), Text("write", "priority_areas")>>)

\* dashboard.py 314-370
render_research_dashboard(weather_data, air_quality_data, nasa_data) ==
  Ok(<<Text("info", "for_researchers"), Text("subheader", "data_quality"),
       Text("metric", "weather_data_quality"), Text("metric", "satellite_coverage"),
       Text("metric", "air_quality_sensors"), Text("subheader", "key_findings"),
       Text("write", "climate_patterns"), Text("write", "correlations"),
       Text("subheader", "advanced_analytics"), Text("dataframe", "correlation_matrix"),
       Text("subheader", "research_recommendations"), Text("write", "priority_areas")>>)

(***************************************************************************)
(* render_dashboard                                                        *)
(***************************************************************************)
Stakeholders == {"Citizens", "BBMP (City Planning)", "BWSSB (Water Board)",
                 "BESCOM (Electricity)", "Parks Department", "Researchers"}

\* render_dashboard whose Parks Department branch calls the research view
render_dashboard_parks_as_research(stakeholder, weather_data, air_quality_data, nasa_data, t) ==
  Then(Ok(<<Item("subheader", "dashboard_for", NoV, stakeholder, "", <<>>)>>),
       CASE stakeholder = "Citizens" ->
              render_citizens_dashboard(weather_data, air_quality_data)
         [] stakeholder = "BBMP (City Planning)" ->
              render_bbmp_dashboard(weather_data, air_quality_data, nasa_data)
         [] stakeholder = "BWSSB (Water Board)" ->
              render_water_board_dashboard(weather_data, nasa_data, t)
         [] stakeholder = "BESCOM (Electricity)" ->
              render_electricity_dashboard(weather_data)
         [] stakeholder = "Parks Department" ->
              render_research_dashboard(weather_data, air_quality_data, nasa_data)
         [] stakeholder = "Researchers" ->
              render_research_dashboard(weather_data, air_quality_data, nasa_data)
         [] OTHER -> Ok(<<>>))

\* dashboard.py 8-24
render_dashboard(stakeholder, weather_data, air_quality_data, nasa_data, t) ==
  Then(Ok(<<Item("subheader", "dashboard_for", NoV, stakeholder, "", <<>>)>>),
       CASE stakeholder = "Citizens" ->
              render_citizens_dashboard(weather_data, air_quality_data)
         [] stakeholder = "BBMP (City Planning)" ->
              render_bbmp_dashboard(weather_data, air_quality_data, nasa_data)
         [] stakeholder = "BWSSB (Water Board)" ->
              render_water_board_dashboard(weather_data, nasa_data, t)
         [] stakeholder = "BESCOM (Electricity)" ->
              render_electricity_dashboard(weather_data)
         [] stakeholder = "Parks Department" ->
              render_parks_dashboard(weather_data, nasa_data)
         [] stakeholder = "Researchers" ->
              render_research_dashboard(weather_data, air_quality_data, nasa_data)
         [] OTHER -> Ok(<<>>))

(***************************************************************************)
(* MapUtils (utils/map_utils.py): each layer yields the markers it adds to *)
(* the map, or raises.                                                     *)
(***************************************************************************)
Marker(what, v, status, color) == Item("marker", what, v, status, color, <<>>)

\* MarkerQuality with the thresholds of the general rule (25 / 50)
MarkerQualityGeneralRule(pm25) ==
  IF Le(pm25, 25) THEN [color |-> "green", quality |-> "Good"]
  ELSE IF Le(pm25, 50) THEN [color |-> "orange", quality |-> "Moderate"]
  ELSE [color |-> "red", quality |-> "Unhealthy"]

\* MarkerQuality with the second threshold raised to 55
MarkerQualityLenient(pm25) ==
  IF Le(pm25, 12) THEN [color |-> "green", quality |-> "Good"]
  ELSE IF Le(pm25, 55) THEN [color |-> "orange", quality |-> "Moderate"]
  ELSE [color |-> "red", quality |-> "Unhealthy"]

\* map_utils.py 68-76
MarkerQuality(pm25) ==
  IF Le(pm25, 12) THEN [color |-> "green", quality |-> "Good"]
  ELSE IF Le(pm25, 35) THEN [color |-> "orange", quality |-> "Moderate"]
  ELSE [color |-> "red", quality |-> "Unhealthy"]

\* map_utils.py 42-61
WeatherMarker(weather_data) ==
  IF NonEmpty(weather_data) /\ Truthy(Get1(weather_data, "location"))
  THEN <<Marker("weather_station", NoV, "", "blue"),
         Shown("popup", "temperature_2m", Get(weather_data, "temperature_2m", NA)),
         Shown("popup", "apparent_temperature", Get(weather_data, "apparent_temperature", NA)),
         Shown("popup", "relative_humidity_2m", Get(weather_data, "relative_humidity_2m", NA)),
         Shown("popup", "wind_speed_10m", Get(weather_data, "wind_speed_10m", NA))>>
  ELSE <<>>

\* map_utils.py 63-93
AirMarker(air_quality_data) ==
  IF NonEmpty(air_quality_data) /\ Truthy(Get1(air_quality_data, "location"))
  THEN LET pm25 == Get(air_quality_data, "pm2_5", Num(0))
       IN IF Raises(pm25) THEN Raise(<<>>)
          ELSE Ok(<<Marker("air_quality", pm25, MarkerQuality(pm25).quality,
                           MarkerQuality(pm25).color),
                    Shown("popup", "pm10", Get(air_quality_data, "pm10", NA)),
                    Shown("popup", "nitrogen_dioxide",
                          Get(air_quality_data, "nitrogen_dioxide", NA))>>)
  ELSE Ok(<<>>)

\* map_utils.py 40-95
add_weather_markers(weather_data, air_quality_data) ==
  Then(Ok(WeatherMarker(weather_data)), AirMarker(air_quality_data))

\* map_utils.py 98-154, called without heat_data
add_heat_island_layer ==
  Ok(<<Item("heatmap", "heat_islands", NoV, "", "", <<42, 38, 31, 29>>)>>
     \o [i \in 1..4 |-> Marker("heat_island_hotspot", Num(<<42, 38, 31, 29>>[i]), "", "red")]
     \o [i \in 1..3 |-> Marker("cooling_zone", Num(<<-21, -18, -13>>[i]), "", "blue")])

\* map_utils.py 159-165
lakes == <<[name |-> "Bellandur Lake", health |-> 45],
           [name |-> "Ulsoor Lake", health |-> 78],
           [name |-> "Sankey Tank", health |-> 82],
           [name |-> "Hebbal Lake", health |-> 67],
           [name |-> "Madivala Lake", health |-> 59]>>

\* LakeStatus with the good threshold made exclusive (health > 70)
LakeStatusGoodExclusive(health) ==
  IF health > 70 THEN [color |-> "green", status |-> "Good"]
  ELSE IF health >= 50 THEN [color |-> "orange", status |-> "Fair"]
  ELSE [color |-> "red", status |-> "Poor"]

\* map_utils.py 169-177
LakeStatus(health) ==
  IF health >= 70 THEN [color |-> "green", status |-> "Good"]
  ELSE IF health >= 50 THEN [color |-> "orange", status |-> "Fair"]
  ELSE [color |-> "red", status |-> "Poor"]

\* map_utils.py 157-194
add_water_bodies ==
  Ok([i \in 1..Len(lakes) |->
        Marker(lakes[i].name, Num(lakes[i].health), LakeStatus(lakes[i].health).status,
               LakeStatus(lakes[i].health).color)])

\* map_utils.py 199-204
development_areas == <<[name |-> "Electronic City Phase 2", type |-> "IT Hub"],
                       [name |-> "Whitefield Extension", type |-> "Residential"],
                       [name |-> "Sarjapur Road Corridor", type |-> "Mixed Development"],
                       [name |-> "North Bengaluru", type |-> "Residential"]>>

\* map_utils.py 207-211
icon_color(type) ==
  CASE type = "IT Hub" -> "purple"
    [] type = "Residential" -> "blue"
    [] type = "Mixed Development" -> "orange"
    [] OTHER -> "gray"

\* map_utils.py 197-228
add_urban_growth_markers ==
  Ok([i \in 1..Len(development_areas) |->
        Marker(development_areas[i].name, NoV, development_areas[i].type,
               icon_color(development_areas[i].type))])

\* map_utils.py 234-240
stations == <<[name |-> "City Railway Station", pm25 |-> 45],
              [name |-> "BTM Layout", pm25 |-> 52],
              [name |-> "Whitefield", pm25 |-> 38],
              [name |-> "Electronic City", pm25 |-> 67],
              [name |-> "Jayanagar", pm25 |-> 41]>>

\* ZoneStatus with the labels of the last two branches exchanged
ZoneStatusLabelsExchanged(pm25) ==
  IF pm25 <= 25 THEN [color |-> "green", status |-> "Good"]
  ELSE IF pm25 <= 50 THEN [color |-> "red", status |-> "Unhealthy"]
  ELSE [color |-> "orange", status |-> "Moderate"]

\* map_utils.py 246-254
ZoneStatus(pm25) ==
  IF pm25 <= 25 THEN [color |-> "green", status |-> "Good"]
  ELSE IF pm25 <= 50 THEN [color |-> "orange", status |-> "Moderate"]
  ELSE [color |-> "red", status |-> "Unhealthy"]

\* map_utils.py 231-274
add_air_quality_zones ==
  Ok([i \in 1..Len(stations) |->
        Marker(stations[i].name, Num(stations[i].pm25), ZoneStatus(stations[i].pm25).status,
               ZoneStatus(stations[i].pm25).color)])

(***************************************************************************)
(* components/maps.py                                                      *)
(***************************************************************************)
\* maps.py 102-128
add_city_landmarks ==
  Ok(<<Marker("Vidhana Soudha", NoV, "government", "purple"),
       Marker("Bangalore Palace", NoV, "heritage", "darkred"),
       Marker("UB City Mall", NoV, "commercial", "orange"),
       Marker("Kempegowda Airport", NoV, "transport", "blue"),
       Marker("Majestic Bus Station", NoV, "transport", "blue")>>)

\* maps.py 142-147, temperatures in tenths of a degree
StationColor(temp10) ==
  IF temp10 > 300 THEN "red" ELSE IF temp10 > 280 THEN "orange" ELSE "green"

\* maps.py 130-164
add_temperature_stations ==
  Ok(<<Marker("HAL Airport", Num(285), "", StationColor(285)),
       Marker("IISC Campus", Num(268), "", StationColor(268)),
       Marker("Electronic City", Num(321), "", StationColor(321)),
       Marker("Whitefield", Num(314), "", StationColor(314))>>)

\* maps.py 177-183
quality_colors(quality) ==
  CASE quality = "Excellent" -> "darkgreen"
    [] quality = "Good" -> "green"
    [] quality = "Fair" -> "orange"
    [] quality = "Poor" -> "red"
    [] quality = "Very Poor" -> "darkred"
    [] OTHER -> "gray"

\* maps.py 166-200
add_water_quality_stations ==
  Ok(<<Marker("Bellandur Inlet", NoV, "Poor", quality_colors("Poor")),
       Marker("Bellandur Outlet", NoV, "Very Poor", quality_colors("Very Poor")),
       Marker("Ulsoor Lake Center", NoV, "Good", quality_colors("Good")),
       Marker("Sankey Tank Inlet", NoV, "Excellent", quality_colors("Excellent")),
       Marker("Hebbal Lake", NoV, "Fair", quality_colors("Fair"))>>)

\* maps.py 202-234
add_pollution_sources ==
  Ok(<<Marker("Industrial Area - Peenya", NoV, "Industrial", "purple"),
       Marker("Traffic Junction - Silk Board", NoV, "Traffic", "red"),
       Marker("Construction Zone - Outer Ring Road", NoV, "Construction", "orange"),
       Marker("Waste Processing - Mavallipura", NoV, "Waste", "brown")>>)

\* maps.py 236-272
add_development_zones ==
  Ok(<<Marker("Aerospace Park", NoV, "Planned", "blue"),
       Marker("Peripheral Ring Road", NoV, "Under Construction", "orange"),
       Marker("New Metro Extension", NoV, "Approved", "green"),
       Marker("IT Corridor Extension", NoV, "Proposed", "purple")>>)

\* A layer renderer's result: the markers put on the map, the elements written
\* to the page, and whether it raised.
Layer(name, r, page) ==
  [layers |-> <<name>>, markers |-> r.items, page |-> IF r.raised THEN <<>> ELSE page,
   raised |-> r.raised]

\* maps.py 33-48
render_overview_map(weather_data, air_quality_data) ==
  Layer("overview",
        Then(add_weather_markers(weather_data, air_quality_data),
        Then(add_water_bodies, Then(add_air_quality_zones, add_city_landmarks))),
        <<>>)

\* maps.py 50-61
render_heat_island_map ==
  Layer("heat_island", Then(add_heat_island_layer, add_temperature_stations),
        <<Text("info", "heat_island_map")>>)

\* maps.py 63-74
render_water_monitoring_map ==
  Layer("water_monitoring", Then(add_water_bodies, add_water_quality_stations),
        <<Text("info", "water_monitoring_map")>>)

\* maps.py 76-87
render_air_quality_map ==
  Layer("air_quality", Then(add_air_quality_zones, add_pollution_sources),
        <<Text("info", "air_quality_map")>>)

\* maps.py 89-100
render_urban_growth_map ==
  Layer("urban_growth", Then(add_urban_growth_markers, add_development_zones),
        <<Text("info", "urban_growth_map")>>)

MapTypes == {"overview", "heat_island", "water_monitoring", "air_quality", "urban_growth"}

\* maps.py 301-324
suggest_nearby_locations(map_type) ==
  <<Text("sidebar", "nearby_points_of_interest")>> \o
  (CASE map_type = "water_monitoring" ->
          <<Text("sidebar", "nearest_monitoring_station"), Text("sidebar", "water_treatment"),
            Text("sidebar", "lake_restoration")>>
     [] map_type = "air_quality" ->
          <<Text("sidebar", "air_quality_stations"), Text("sidebar", "green_spaces"),
            Text("sidebar", "low_pollution_routes")>>
     [] map_type = "heat_island" ->
          <<Text("sidebar", "cooling_centers"), Text("sidebar", "shaded_paths"),
            Text("sidebar", "public_ac")>>
     [] OTHER ->
          <<Text("sidebar", "weather_stations"), Text("sidebar", "public_amenities"),
            Text("sidebar", "transport_hubs")>>)

\* maps.py 274-299.  A click is the distance dist = |lat - 12.972| + |lon - 77.594| of the
\* clicked point in thousandths of a degree, or NoneV; the estimates are in tenths.
handle_map_click(clicked_data, map_type) ==
  IF ~Truthy(clicked_data) THEN <<>>
  ELSE <<Text("sidebar", "location_info"), Shown("sidebar", "coordinates", clicked_data)>>
       \o (CASE map_type = "heat_island" ->
                  <<Shown("sidebar", "estimated_temperature",
                          Num(280 + clicked_data.n \div 2))>>
             [] map_type = "air_quality" ->
                  <<Shown("sidebar", "estimated_pm25",
                          Num(300 + Min(200, 2 * clicked_data.n)))>>
             [] OTHER -> <<>>)
       \o suggest_nearby_locations(map_type)

\* render_interactive_map whose final branch is an else that renders the overview
render_interactive_map_default_overview(weather_data, air_quality_data, map_type, last_clicked) ==
  LET base == <<Text("base_map", "OpenStreetMap"), Text("base_map", "Satellite"),
                Text("base_map", "Light Map")>>
      layer == CASE map_type = "heat_island" -> render_heat_island_map
                 [] map_type = "water_monitoring" -> render_water_monitoring_map
                 [] map_type = "air_quality" -> render_air_quality_map
                 [] map_type = "urban_growth" -> render_urban_growth_map
                 [] OTHER -> render_overview_map(weather_data, air_quality_data)
      calls == [i \in 1..Len(layer.layers) |-> Text("call", layer.layers[i])]
  IN IF layer.raised THEN Raise(calls \o layer.page)
     ELSE Ok(calls \o layer.page
             \o <<Item("st_folium", map_type, NoV, "", "", <<>>)>> \o base \o layer.markers
             \o handle_map_click(last_clicked, map_type))

\* A "call" element records the invocation of a layer renderer.
\* maps.py 7-31
render_interactive_map(weather_data, air_quality_data, map_type, last_clicked) ==
  LET base == <<Text("base_map", "OpenStreetMap"), Text("base_map", "Satellite"),
                Text("base_map", "Light Map")>>
      layer == CASE map_type = "overview" -> render_overview_map(weather_data, air_quality_data)
                 [] map_type = "heat_island" -> render_heat_island_map
                 [] map_type = "water_monitoring" -> render_water_monitoring_map
                 [] map_type = "air_quality" -> render_air_quality_map
                 [] map_type = "urban_growth" -> render_urban_growth_map
                 [] OTHER -> [layers |-> <<>>, markers |-> <<>>, page |-> <<>>,
                              raised |-> FALSE]
      calls == [i \in 1..Len(layer.layers) |-> Text("call", layer.layers[i])]
  IN IF layer.raised THEN Raise(calls \o layer.page)
     ELSE Ok(calls \o layer.page
             \o <<Item("st_folium", map_type, NoV, "", "", <<>>)>> \o base \o layer.markers
             \o handle_map_click(last_clicked, map_type))

(***************************************************************************)
(* Inputs of a request.  The bundles are fetched once per session and      *)
(* handed to every request of the session; readings are taken at and       *)
(* around every threshold of the code.                                     *)
(***************************************************************************)
TempReadings ==
  {Num(t) : t \in {0, 14, 15, 16, 25, 26, 30, 31, 35, 36}} \cup {NaN, NoneV, StrV, AbsentV}
PMReadings ==
  {Num(p) : p \in {0, 12, 13, 25, 26, 35, 36, 50, 51}} \cup {NaN, NoneV, StrV, AbsentV}

WeatherBundle(temp, rest, loc) ==
  Dict([temperature_2m |-> temp,
        apparent_temperature |-> IF rest THEN Num(31) ELSE AbsentV,
        relative_humidity_2m |-> IF rest THEN Num(60) ELSE AbsentV,
        wind_speed_10m |-> IF rest THEN Num(9) ELSE AbsentV,
        location |-> loc,
        other |-> Num(1)])

AirBundle(pm25, rest, loc) ==
  Dict([pm2_5 |-> pm25,
        pm10 |-> IF rest THEN Num(40) ELSE AbsentV,
        nitrogen_dioxide |-> IF rest THEN Num(20) ELSE AbsentV,
        location |-> loc,
        other |-> Num(1)])

WeatherBundles ==
  {NoBundle(WeatherKeys), Dict([k \in WeatherKeys |-> AbsentV])}
  \cup {WeatherBundle(t, TRUE, LocV) : t \in TempReadings}
  \cup {WeatherBundle(t, FALSE, AbsentV) : t \in {AbsentV, NoneV, Num(36)}}

AirBundles ==
  {NoBundle(AirKeys), Dict([k \in AirKeys |-> AbsentV])}
  \cup {AirBundle(p, TRUE, LocV) : p \in PMReadings}
  \cup {AirBundle(p, FALSE, AbsentV) : p \in {AbsentV, NoneV, Num(51)}}

NasaBundles == {NoBundle({"other"}), Dict([k \in {"other"} |-> Num(1)])}

Clicks == {NoneV, Num(40)}

Request(fn, sel, weather_data, air_quality_data, nasa_data, last_clicked, value) ==
  [fn |-> fn, sel |-> sel, weather_data |-> weather_data,
   air_quality_data |-> air_quality_data, nasa_data |-> nasa_data,
   last_clicked |-> last_clicked, value |-> value]

(***************************************************************************)
(* The requests.                                                           *)
(***************************************************************************)
Init ==
  /\ now = StartHour
  /\ \E w \in WeatherBundles, a \in AirBundles, n \in NasaBundles :
       req = Request("none", "", w, a, n, NoneV, NoV)
  /\ out = Ok(<<>>)

RenderDashboard ==
  \E stakeholder \in Stakeholders \cup {"Visitors"} :
    /\ req' = [req EXCEPT !.fn = "render_dashboard", !.sel = stakeholder,
                          !.last_clicked = NoneV]
    /\ out' = render_dashboard(stakeholder, req.weather_data, req.air_quality_data,
                               req.nasa_data, now)
    /\ UNCHANGED now

RenderInteractiveMap ==
  \E map_type \in MapTypes \cup {"terrain"}, c \in Clicks :
    /\ req' = [req EXCEPT !.fn = "render_interactive_map", !.sel = map_type,
                          !.last_clicked = c]
    /\ out' = render_interactive_map(req.weather_data, req.air_quality_data, map_type, c)
    /\ UNCHANGED now

\* the wall clock advances between requests
Tick ==
  /\ now < StartHour + MaxTicks
  /\ now' = now + 1
  /\ UNCHANGED <<req, out>>

Next == RenderDashboard \/ RenderInteractiveMap \/ Tick

Spec == Init /\ [][Next]_vars

(***************************************************************************)
(* The classification rules on their own: a reading is drawn, then one of  *)
(* the rules is applied to it as the views apply it.                       *)
(***************************************************************************)
ProbeValues == {Num(v) : v \in -2..MaxProbe} \cup {NaN, NoneV, StrV}

Probe(fn, value) ==
  Request(fn, "", NoBundle(WeatherKeys), NoBundle(AirKeys), NoBundle({"other"}), NoneV, value)

InitClassify ==
  /\ now = StartHour
  /\ \E v \in ProbeValues : req = Probe("probe", v)
  /\ out = Ok(<<>>)

Classify(fn, result) ==
  /\ req.fn = "probe"
  /\ req' = [req EXCEPT !.fn = fn]
  /\ out' = result
  /\ UNCHANGED now

ClassifyTemperature == Classify("TempAdvisory", Ok(TempAdvisory(req.value)))

ClassifyCitizenPM == Classify("CitizenPM", Ok(CitizenPM(req.value)))

ClassifyMarkerPM == Classify("AirMarker", AirMarker(AirBundle(req.value, TRUE, LocV)))

ClassifyZonePM ==
  /\ req.value.tag = "num"
  /\ Classify("ZoneStatus",
              Ok(<<Marker("station", req.value, ZoneStatus(req.value.n).status,
                          ZoneStatus(req.value.n).color)>>))

ClassifyLake ==
  /\ req.value.tag = "num"
  /\ Classify("LakeStatus",
              Ok(<<Marker("lake", req.value, LakeStatus(req.value.n).status,
                          LakeStatus(req.value.n).color)>>))

ClassifyHealthScore ==
  /\ req.value.tag = "num"
  /\ Classify("color_health_score",
              Ok(<<Item("cell", "health_score", req.value, "",
                        color_health_score(req.value.n), <<>>)>>))

NextClassify ==
  \/ ClassifyTemperature \/ ClassifyCitizenPM \/ ClassifyMarkerPM
  \/ ClassifyZonePM \/ ClassifyLake \/ ClassifyHealthScore

SpecClassify == InitClassify /\ [][NextClassify]_vars

(***************************************************************************)
(* Properties.                                                             *)
(***************************************************************************)
\* the elements of the last output that carry the label what
ItemsOf(what) == {out.items[i] : i \in {j \in 1..Len(out.items) : out.items[j].what = what}}
\* the categories the last output assigns under the label what
CategoriesOf(what) == {it.cat : it \in {x \in ItemsOf(what) : x.cat # ""}}
\* the reading a probe applies its rule to
value == req.value
Applied(fn) == req.fn = fn /\ value.tag = "num"

\* C1: for every numeric temperature t the citizen view's advisory is Cool when
\* t < 15, Pleasant when 15 <= t <= 35 and VeryHot when t > 35, and exactly one
\* advisory is emitted.
C1_TemperatureAdvisory ==
  /\ Applied("TempAdvisory") =>
       /\ value.n < 15 => CategoriesOf("temperature") = {"Cool"}
       /\ (15 <= value.n /\ value.n <= 35) => CategoriesOf("temperature") = {"Pleasant"}
       /\ value.n > 35 => CategoriesOf("temperature") = {"VeryHot"}
  /\ (req.fn = "TempAdvisory" /\ IsNumber(value)) =>
       /\ Len(out.items) = 1
       /\ CategoriesOf("temperature") \subseteq {"Cool", "Pleasant", "VeryHot"}
       /\ Cardinality(CategoriesOf("temperature")) = 1

C1_Witness ==
  /\ Applied("TempAdvisory") /\ value.n = 35
  /\ CategoriesOf("temperature") = {"Pleasant"}

\* C2: under the general rule a numeric PM2.5 value p is Good when p <= 25,
\* Moderate when 25 < p <= 50 and Poor (citizen view) / Unhealthy (station
\* zones) when p > 50.
C2_GeneralPMRule ==
  /\ Applied("CitizenPM") =>
       /\ value.n <= 25 => CategoriesOf("pm2_5") = {"Good"}
       /\ (25 < value.n /\ value.n <= 50) => CategoriesOf("pm2_5") = {"Moderate"}
       /\ value.n > 50 => CategoriesOf("pm2_5") = {"Poor"}
  /\ Applied("ZoneStatus") =>
       /\ value.n <= 25 => CategoriesOf("station") = {"Good"}
       /\ (25 < value.n /\ value.n <= 50) => CategoriesOf("station") = {"Moderate"}
       /\ value.n > 50 => CategoriesOf("station") = {"Unhealthy"}

C2_Witness ==
  /\ Applied("CitizenPM") /\ value.n = 50
  /\ CategoriesOf("pm2_5") = {"Moderate"}

\* C6: a lake health score s is Good (green) when s >= 70, Fair (orange on the
\* map, amber in the table) when 50 <= s < 70 and Poor (red on the map, pink in
\* the table) when s < 50.
C6_LakeHealth ==
  /\ Applied("LakeStatus") =>
       \E m \in ItemsOf("lake") :
         /\ ItemsOf("lake") = {m}
         /\ value.n >= 70 => (m.cat = "Good" /\ m.color = "green")
         /\ (50 <= value.n /\ value.n < 70) => (m.cat = "Fair" /\ m.color = "orange")
         /\ value.n < 50 => (m.cat = "Poor" /\ m.color = "red")
  /\ Applied("color_health_score") =>
       \E c \in ItemsOf("health_score") :
         /\ ItemsOf("health_score") = {c}
         /\ value.n >= 70 => c.color = "#90EE90"
         /\ (50 <= value.n /\ value.n < 70) => c.color = "#FFD700"
         /\ value.n < 50 => c.color = "#FFB6C1"

C6_Witness ==
  /\ Applied("color_health_score") /\ value.n = 50
  /\ \E c \in ItemsOf("health_score") : c.color = "#FFD700"

\* C7: on the overview map's air-quality marker a numeric PM2.5 value p is
\* Good/green when p <= 12, Moderate/orange when 12 < p <= 35 and
\* Unhealthy/red when p > 35.
C7_StationSpecificPMRule ==
  Applied("AirMarker") =>
    \E m \in ItemsOf("air_quality") :
      /\ ItemsOf("air_quality") = {m}
      /\ value.n <= 12 => (m.cat = "Good" /\ m.color = "green")
      /\ (12 < value.n /\ value.n <= 35) => (m.cat = "Moderate" /\ m.color = "orange")
      /\ value.n > 35 => (m.cat = "Unhealthy" /\ m.color = "red")

C7_Witness ==
  /\ Applied("AirMarker") /\ value.n = 35
  /\ \E m \in ItemsOf("air_quality") : m.cat = "Moderate" /\ m.color = "orange"

\* the rule applied by a probe and the one category (or, for the table cell,
\* colour) it assigned
Verdict(label) ==
  IF label = "health_score"
  THEN {it.color : it \in ItemsOf(label)}
  ELSE CategoriesOf(label)
OnBoundary(fn, b) == Applied(fn) /\ value.n = b

\* C8 as stated: a value lying exactly on a boundary between two categories is
\* assigned the stricter (worse) of the two.
C8_BoundaryGetsWorseCategory ==
  /\ OnBoundary("TempAdvisory", 15) => Verdict("temperature") = {"Cool"}
  /\ OnBoundary("TempAdvisory", 35) => Verdict("temperature") = {"VeryHot"}
  /\ OnBoundary("CitizenPM", 25) => Verdict("pm2_5") = {"Moderate"}
  /\ OnBoundary("CitizenPM", 50) => Verdict("pm2_5") = {"Poor"}
  /\ OnBoundary("ZoneStatus", 25) => Verdict("station") = {"Moderate"}
  /\ OnBoundary("ZoneStatus", 50) => Verdict("station") = {"Unhealthy"}
  /\ OnBoundary("AirMarker", 12) => Verdict("air_quality") = {"Moderate"}
  /\ OnBoundary("AirMarker", 35) => Verdict("air_quality") = {"Unhealthy"}
  /\ OnBoundary("LakeStatus", 70) => Verdict("lake") = {"Fair"}
  /\ OnBoundary("LakeStatus", 50) => Verdict("lake") = {"Poor"}
  /\ OnBoundary("color_health_score", 70) => Verdict("health_score") = {"#FFD700"}
  /\ OnBoundary("color_health_score", 50) => Verdict("health_score") = {"#FFB6C1"}

\* C8 (amended): a value lying exactly on a boundary between two categories is
\* assigned the milder (better) of the two: 15 and 35 degrees are Pleasant, PM2.5
\* of 25 (general rule) or 12 (marker rule) is Good and of 50 or 35 is Moderate,
\* a lake score of 70 is Good and of 50 is Fair.
C8_BoundaryGetsBetterCategory ==
  /\ OnBoundary("TempAdvisory", 15) => Verdict("temperature") = {"Pleasant"}
  /\ OnBoundary("TempAdvisory", 35) => Verdict("temperature") = {"Pleasant"}
  /\ OnBoundary("CitizenPM", 25) => Verdict("pm2_5") = {"Good"}
  /\ OnBoundary("CitizenPM", 50) => Verdict("pm2_5") = {"Moderate"}
  /\ OnBoundary("ZoneStatus", 25) => Verdict("station") = {"Good"}
  /\ OnBoundary("ZoneStatus", 50) => Verdict("station") = {"Moderate"}
  /\ OnBoundary("AirMarker", 12) => Verdict("air_quality") = {"Good"}
  /\ OnBoundary("AirMarker", 35) => Verdict("air_quality") = {"Moderate"}
  /\ OnBoundary("LakeStatus", 70) => Verdict("lake") = {"Good"}
  /\ OnBoundary("LakeStatus", 50) => Verdict("lake") = {"Fair"}
  /\ OnBoundary("color_health_score", 70) => Verdict("health_score") = {"#90EE90"}
  /\ OnBoundary("color_health_score", 50) => Verdict("health_score") = {"#FFD700"}

C8_Witness ==
  /\ OnBoundary("LakeStatus", 70)
  /\ Verdict("lake") = {"Good"}

(***************************************************************************)
(* Properties of the views.                                                *)
(***************************************************************************)
Called(fn, sel) == req.fn = fn /\ req.sel = sel
\* a field of a bundle holds a number
Numeric(bundle, key) == ~bundle.none /\ IsNumber(bundle.d[key])
\* a field of a bundle is not in it
Missing(bundle, key) == bundle.none \/ bundle.d[key].tag = "absent"

\* C3: a missing or non-numeric reading yields no category, in the citizen view
\* (temperature, PM2.5) and on the overview map's air-quality marker.
C3_MissingYieldsNoCategory ==
  /\ (Called("render_dashboard", "Citizens")
        /\ ~Numeric(req.weather_data, "temperature_2m")) => CategoriesOf("temperature") = {}
  /\ (Called("render_dashboard", "Citizens")
        /\ ~Numeric(req.air_quality_data, "pm2_5")) => CategoriesOf("pm2_5") = {}
  /\ (Called("render_interactive_map", "overview")
        /\ ~Numeric(req.air_quality_data, "pm2_5")) => CategoriesOf("air_quality") = {}

\* C4: no view shows, classifies or computes with a stand-in number for a
\* temperature_2m or pm2_5 reading that is missing from its bundle.
C4_NoDefaultForMissingReading ==
  /\ Missing(req.weather_data, "temperature_2m") =>
       /\ \A it \in ItemsOf("temperature_2m") \cup ItemsOf("current_temperature") :
            it.v.tag # "num"
       /\ ItemsOf("cooling_demand") = {}
  /\ Missing(req.air_quality_data, "pm2_5") =>
       /\ \A it \in ItemsOf("pm2_5") \cup ItemsOf("air_quality") : it.v.tag # "num"
       /\ CategoriesOf("air_quality") = {}

\* C5: a metric that is absent or non-numeric in a non-empty bundle never makes
\* a view or a map layer fail.
C5_ViewNeverFails == ~out.raised

\* the metric fields of the bundles whose value the last output shows
BundleFields == (WeatherKeys \cup AirKeys) \ {"location", "other"}
Surfaced == {it.what : it \in {x \in Range(out.items) : x.v.tag # "-" /\ x.what \in BundleFields}}
CitizenMetrics == {"temperature_2m", "apparent_temperature", "relative_humidity_2m", "pm2_5"}
MapElements == {x \in Range(out.items) : x.kind \in {"st_folium", "base_map", "marker", "popup", "heatmap"}}

\* C9 as stated: the Citizens view of a weather bundle and an air-quality bundle
\* surfaces exactly temperature, feels-like, humidity and PM2.5, and no map layer.
C9_CitizensExactlyFourMetrics ==
  (Called("render_dashboard", "Citizens") /\ NonEmpty(req.weather_data)
     /\ NonEmpty(req.air_quality_data)) =>
    /\ Surfaced = CitizenMetrics
    /\ MapElements = {}

\* C9 (amended): the Citizens view surfaces no field other than temperature,
\* feels-like, humidity and PM2.5 and no map layer at all; it shows temperature,
\* feels-like and humidity (N/A for a missing one) exactly when the weather bundle
\* is non-empty, and PM2.5 exactly when the air-quality bundle is non-empty and
\* its pm2_5 is a number.
C9_CitizensSubset ==
  Called("render_dashboard", "Citizens") =>
    /\ Surfaced \subseteq CitizenMetrics
    /\ MapElements = {}
    /\ \A m \in CitizenMetrics \ {"pm2_5"} : m \in Surfaced <=> NonEmpty(req.weather_data)
    /\ "pm2_5" \in Surfaced <=>
         (NonEmpty(req.air_quality_data) /\ Numeric(req.air_quality_data, "pm2_5"))

C9_Witness ==
  /\ Called("render_dashboard", "Citizens")
  /\ Surfaced = CitizenMetrics
  /\ ~Missing(req.weather_data, "wind_speed_10m")
  /\ ~Missing(req.air_quality_data, "pm10")

\* C10: two calls of render_dashboard with identical inputs produce identical
\* output, whenever each is made.
C10_SameInputsSameOutput ==
  [][(req.fn = "render_dashboard" /\ req' = req) => out' = out]_vars

\* the view each stakeholder identity owns, named by the banner that opens it
\* (Citizens, City-Planning, Water-Board, Electricity-Utility, Parks-Department,
\* Researchers, under the names the code gives them)
ViewOf(stakeholder) ==
  CASE stakeholder = "Citizens" -> "for_citizens"
    [] stakeholder = "BBMP (City Planning)" -> "for_bbmp"
    [] stakeholder = "BWSSB (Water Board)" -> "for_bwssb"
    [] stakeholder = "BESCOM (Electricity)" -> "for_bescom"
    [] stakeholder = "Parks Department" -> "for_parks"
    [] stakeholder = "Researchers" -> "for_researchers"
    [] OTHER -> ""
IsBanner(it) == it.kind = "info" /\ it.what \in {ViewOf(s) : s \in Stakeholders}
\* the views the last output opens, in order
ViewsShown == [i \in 1..Len(SelectSeq(out.items, IsBanner)) |->
                 SelectSeq(out.items, IsBanner)[i].what]

\* C11: for each of the six stakeholder identities render_dashboard selects
\* exactly one view, the one of that identity, and no two identities select the
\* same view.
C11_OneViewPerStakeholder ==
  /\ \A s1, s2 \in Stakeholders : ViewOf(s1) = ViewOf(s2) => s1 = s2
  /\ (req.fn = "render_dashboard" /\ req.sel \in Stakeholders) =>
       ViewsShown = <<ViewOf(req.sel)>>

C11_Witness ==
  /\ Called("render_dashboard", "Parks Department")
  /\ ViewsShown = <<"for_parks">>

IsCall(it) == it.kind = "call"
\* the layer renderers the last request invoked, in order
LayersCalled == [i \in 1..Len(SelectSeq(out.items, IsCall)) |->
                   SelectSeq(out.items, IsCall)[i].what]
\* a marker only the renderer of that layer puts on the map
LandmarkOf(map_type) ==
  CASE map_type = "overview" -> "Vidhana Soudha"
    [] map_type = "heat_island" -> "HAL Airport"
    [] map_type = "water_monitoring" -> "Bellandur Inlet"
    [] map_type = "air_quality" -> "Industrial Area - Peenya"
    [] map_type = "urban_growth" -> "Aerospace Park"
    [] OTHER -> ""
LayerElements == {x \in Range(out.items) : x.kind \in {"marker", "popup", "heatmap"}}

\* C12: for each map-layer selector of the fixed set render_interactive_map
\* invokes exactly one layer renderer, the one of that selector; for any other
\* selector it invokes none and shows only the base map.
C12_OneLayerPerSelector ==
  req.fn = "render_interactive_map" =>
    /\ req.sel \in MapTypes =>
         /\ LayersCalled = <<req.sel>>
         /\ ~out.raised =>
              \A m \in MapTypes : (ItemsOf(LandmarkOf(m)) # {}) <=> (m = req.sel)
    /\ req.sel \notin MapTypes =>
         /\ LayersCalled = <<>>
         /\ LayerElements = {}
         /\ ItemsOf("OpenStreetMap") # {}

C12_Witness ==
  /\ Called("render_interactive_map", "terrain")
  /\ LayersCalled = <<>>
  /\ ItemsOf("OpenStreetMap") # {}

\* C13: nothing persists between requests: after any sequence of requests the
\* output of a call is the one its arguments and the static tables give, the
\* same as if it were the first request of the session.
C13_OutputOnlyFromArguments ==
  /\ req.fn = "render_dashboard" =>
       out = render_dashboard(req.sel, req.weather_data, req.air_quality_data,
                              req.nasa_data, StartHour)
  /\ req.fn = "render_interactive_map" =>
       out = render_interactive_map(req.weather_data, req.air_quality_data, req.sel,
                                    req.last_clicked)

\* the order of the categories: PM2.5 from best to worst, lake health from worst
\* to best
PMRank(cat) ==
  CASE cat = "Good" -> 0
    [] cat = "Moderate" -> 1
    [] cat \in {"Poor", "Unhealthy"} -> 2
    [] OTHER -> -1
LakeRank(cat) ==
  CASE cat \in {"Poor", "#FFB6C1"} -> 0
    [] cat \in {"Fair", "#FFD700"} -> 1
    [] cat \in {"Good", "#90EE90"} -> 2
    [] OTHER -> -1
\* the colour (on the map) or the element kind (in the citizen view) of a category
ColourOf(cat) ==
  CASE cat = "Good" -> "green"
    [] cat \in {"Moderate", "Fair"} -> "orange"
    [] cat \in {"Poor", "Unhealthy"} -> "red"
    [] OTHER -> ""
KindOf(cat) ==
  CASE cat = "Good" -> "success"
    [] cat = "Moderate" -> "warning"
    [] cat = "Poor" -> "error"
    [] OTHER -> ""
\* the category a sequence of elements assigns
CategoryIn(items) == CHOOSE c \in {it.cat : it \in Range(items)} \ {""} : TRUE
TheVerdict(label) == CHOOSE c \in Verdict(label) : TRUE
Above == {q \in -2..MaxProbe : value.n <= q}

\* C14: classification is monotone: under either PM2.5 rule the category of a
\* larger value is never better, the category of a larger lake health score is
\* never worse, and a category is always shown with the same colour.
C14_MonotoneClassification ==
  /\ Applied("CitizenPM") =>
       /\ PMRank(TheVerdict("pm2_5")) >= 0
       /\ \A q \in Above :
            PMRank(TheVerdict("pm2_5")) <= PMRank(CategoryIn(CitizenPM(Num(q))))
       /\ \A it \in ItemsOf("pm2_5") : it.cat # "" => it.kind = KindOf(it.cat)
  /\ Applied("ZoneStatus") =>
       /\ PMRank(TheVerdict("station")) >= 0
       /\ \A q \in Above : PMRank(TheVerdict("station")) <= PMRank(ZoneStatus(q).status)
       /\ \A it \in ItemsOf("station") : it.color = ColourOf(it.cat)
  /\ Applied("AirMarker") =>
       /\ PMRank(TheVerdict("air_quality")) >= 0
       /\ \A q \in Above :
            PMRank(TheVerdict("air_quality")) <= PMRank(MarkerQuality(Num(q)).quality)
       /\ \A it \in ItemsOf("air_quality") : it.color = ColourOf(it.cat)
  /\ Applied("LakeStatus") =>
       /\ LakeRank(TheVerdict("lake")) >= 0
       /\ \A r \in Above : LakeRank(TheVerdict("lake")) <= LakeRank(LakeStatus(r).status)
       /\ \A it \in ItemsOf("lake") : it.color = ColourOf(it.cat)
  /\ Applied("color_health_score") =>
       /\ LakeRank(TheVerdict("health_score")) >= 0
       /\ \A r \in Above :
            LakeRank(TheVerdict("health_score")) <= LakeRank(color_health_score(r))

C14_Witness ==
  /\ Applied("ZoneStatus") /\ value.n = 25
  /\ TheVerdict("station") = "Good"
  /\ ZoneStatus(26).status = "Moderate"

\* the temperature_2m reading of the request (AbsentV when there is none)
TemperatureReading ==
  IF req.weather_data.none THEN AbsentV ELSE req.weather_data.d["temperature_2m"]
\* the demand curves the last output plots
Forecasts == {it.data : it \in {x \in ItemsOf("demand_forecast") : x.kind = "chart"}}
ForecastFollowsTemperature(f) ==
  LET temp == TemperatureReading
  IN /\ Len(f) = Len(base_demand)
     /\ IsNumber(temp) => \A i \in 1..Len(f) : f[i] >= base_demand[i]
     /\ (temp.tag = "num" /\ temp.n <= 25) => f = base_demand
     /\ (temp.tag = "num" /\ temp.n > 25) =>
          \A i \in 1..Len(f) : f[i] * 100 = base_demand[i] * (100 + 2 * (temp.n - 25))
     /\ ~IsNumber(temp) => f = base_demand

\* C15: the electricity view plots the base curve scaled by 1 + 0.02 per degree
\* above 25 and never by less than 1: every hourly demand is >= its base demand,
\* equals it when temperature <= 25, and the unadjusted base curve is plotted when
\* the temperature is missing or not a number.
C15_DemandForecast ==
  Called("render_dashboard", "BESCOM (Electricity)") =>
    /\ Forecasts # {}
    /\ \A f \in Forecasts : ForecastFollowsTemperature(f)

\* C16: for every PM2.5 value the category of the station-specific rule (overview
\* marker) is equal to or worse than the category of the general rule (citizen
\* view, station zones), and the two differ exactly for 12 < p <= 25 and
\* 35 < p <= 50.
C16_MarkerRuleNeverBetter ==
  Applied("AirMarker") =>
    LET marker == PMRank(TheVerdict("air_quality"))
        zone == PMRank(ZoneStatus(value.n).status)
        citizen == PMRank(CategoryIn(CitizenPM(value)))
    IN /\ zone = citizen
       /\ marker >= zone
       /\ (marker # zone) <=>
            ((12 < value.n /\ value.n <= 25) \/ (35 < value.n /\ value.n <= 50))

C16_Witness ==
  /\ Applied("AirMarker") /\ value.n = 40
  /\ TheVerdict("air_quality") = "Unhealthy"
  /\ ZoneStatus(value.n).status = "Moderate"

HeatRecsListed == {"rec_water", "rec_clothes", "rec_avoid_peak"} \subseteq {it.what : it \in Range(out.items)}
AirRecsListed == {"rec_mask", "rec_windows", "rec_indoor"} \subseteq {it.what : it \in Range(out.items)}
AnyRecListed ==
  {"rec_water", "rec_clothes", "rec_avoid_peak", "rec_mask", "rec_windows", "rec_indoor"}
    \cap {it.what : it \in Range(out.items)} # {}

\* C17: in the citizen view the recommendations agree with the classifications
\* shown above them: the heat recommendations are listed iff the temperature is
\* classified VeryHot, the air recommendations iff PM2.5 is classified and not
\* Good, and "Great conditions today" iff neither group is listed.
C17_RecommendationsAgree ==
  Called("render_dashboard", "Citizens") =>
    /\ HeatRecsListed <=> ("VeryHot" \in CategoriesOf("temperature"))
    /\ AirRecsListed <=> (CategoriesOf("pm2_5") \cap {"Moderate", "Poor"} # {})
    /\ (ItemsOf("great_conditions") # {}) <=> ~AnyRecListed
    /\ AnyRecListed <=> (HeatRecsListed \/ AirRecsListed)

\* C18: the electricity view shows a cooling-demand percentage only when
\* temperature > 30, computed as min(100, (temperature - 25) * 20): it lies in
\* 0..100 and is 100 whenever it is shown; for temperature <= 30 it shows "Low".
C18_CoolingDemand ==
  Called("render_dashboard", "BESCOM (Electricity)") =>
    LET temp == TemperatureReading
        shown == ItemsOf("cooling_demand")
    IN /\ \A it \in shown :
            it.v.tag = "num" =>
              /\ temp.tag = "num" /\ temp.n > 30
              /\ it.v.n = IF (temp.n - 25) * 20 < 100 THEN (temp.n - 25) * 20 ELSE 100
              /\ it.v.n \in 0..100
              /\ it.v.n = 100
       /\ (temp.tag = "num" /\ temp.n > 30) =>
            (shown # {} /\ \A it \in shown : it.v.tag = "num" /\ it.cat = "")
       /\ (temp.tag = "num" /\ temp.n <= 30) =>
            (shown # {} /\ \A it \in shown : it.v.tag = "-" /\ it.cat = "Low")

C18_Witness ==
  /\ Called("render_dashboard", "BESCOM (Electricity)")
  /\ TemperatureReading = Num(31)
  /\ \E it \in ItemsOf("cooling_demand") : it.v = Num(100)

StaticViews == {"BBMP (City Planning)", "BWSSB (Water Board)", "Parks Department",
                "Researchers"}
\* what the view of a stakeholder shows when it is given no bundle at all, at
\* some hour of the session
WithoutBundles(stakeholder) ==
  {render_dashboard(stakeholder, NoBundle(WeatherKeys), NoBundle(AirKeys),
                    NoBundle({"other"}), t) : t \in StartHour..now}

\* C19: the City-Planning, Water-Board, Parks-Department and Researchers views
\* are independent of the supplied bundles: whatever the weather, air-quality
\* and satellite bundles are, each shows what it shows without any bundle.
C19_StaticViewsIgnoreBundles ==
  (req.fn = "render_dashboard" /\ req.sel \in StaticViews) =>
    out \in WithoutBundles(req.sel)

C19_Witness ==
  /\ Called("render_dashboard", "Researchers")
  /\ NonEmpty(req.weather_data) /\ NonEmpty(req.air_quality_data) /\ NonEmpty(req.nasa_data)
  /\ Numeric(req.air_quality_data, "pm2_5")
  /\ out \in WithoutBundles("Researchers")

IsCell(it) == it.kind = "cell" /\ it.what = "health_score"
\* the rows of the water board's lake table: health score and water-quality label
LakeTable == SelectSeq(out.items, IsCell)
\* the category a water-quality label of the table speaks of
LabelCategory(label) ==
  CASE label \in {"Excellent", "Good"} -> "Good"
    [] label = "Fair" -> "Fair"
    [] label \in {"Poor", "Critical"} -> "Poor"
    [] OTHER -> ""

\* C20: for each of the five lakes the health score of the water-board table
\* equals the score of the map marker, and the table's water-quality label is
\* consistent with the category the health-score thresholds give that score.
C20_LakeTableAgreesWithMap ==
  Called("render_dashboard", "BWSSB (Water Board)") =>
    /\ Len(LakeTable) = Len(lakes)
    /\ \A i \in 1..Len(lakes) :
         /\ LakeTable[i].v = Num(lakes[i].health)
         /\ LakeTable[i].v = add_water_bodies.items[i].v
         /\ LabelCategory(LakeTable[i].cat) = add_water_bodies.items[i].cat
====
